---- MODULE Spec2Model ----
(***************************************************************************)
(* The policy engine core of senlin (senlin/policies/base.py): the Policy  *)
(* base class, its virtual constructor, the attach / need_check guards,    *)
(* the versioned policy-data codec and the create-or-update persistence    *)
(* path over the entity store.                                             *)
(*                                                                         *)
(* A Python value that is a string or None is a TLA+ string, None being    *)
(* the string "None"; where an object or a mapping is expected, None is    *)
(* PyNone.  Class attributes whose Python type varies (PROFILE_TYPE,       *)
(* TARGET) are tagged values, so that == between a str and a list is       *)
(* False as it is in Python.                                               *)
(***************************************************************************)
EXTENDS Naturals, Sequences, FiniteSets, TLC

VARIABLES p, db, next_id, ret

vars == <<p, db, next_id, ret>>

\* p        the policy instance at hand (None before any construction)
\* db       the policy table of the entity store: id -> record
\* next_id  how many ids the store has handed out (ids are never reused)
\* ret      the last call: its name, arguments, raised exception and value

(* ----------------------------- bounds ---------------------------------- *)

\* how many records the entity store creates
MaxIds == 2

(* --------------------------- Python values ----------------------------- *)

None == "None"

EmptyDict == <<>>

PyNone == [tag |-> "NoneType"]

PyStr(s) == [tag |-> "str", v |-> s]

PyList(l) == [tag |-> "list", v |-> l]

\* a == b across types
PyEq(a, b) == a.tag = b.tag /\ (a.tag = "NoneType" \/ a.v = b.v)

\* every substring of 'ANY', the only str a PROFILE_TYPE is compared as
Pieces == {"", "A", "N", "Y", "AN", "NY", "ANY"}

\* x in c: an element of a list, a substring of a str
PyIn(x, c) ==
    IF c.tag = "list" THEN \E i \in DOMAIN c.v : c.v[i] = x
    ELSE \E a, b \in Pieces : a \o x \o b = c.v

\* d.get(k, default)
Get(d, k, default) == IF k \in DOMAIN d THEN d[k] ELSE default

(* ------------------------ classes (policy kinds) ----------------------- *)

\* class Policy(object): PROFILE_TYPE = 'ANY'; KEYS binds VERSION = 'version'
PolicyAttrs == [PROFILE_TYPE |-> PyStr("ANY"), VERSION |-> "version"]

\* concrete kinds: each overrides some class attributes of Policy
ScalingAttrs ==
    [PROFILE_TYPE |-> PyList(<<"ANY">>), VERSION |-> "1.0",
     TARGET |-> PyList(<< <<"BEFORE", "CLUSTER_SCALE_IN">>,
                          <<"BEFORE", "CLUSTER_SCALE_OUT">> >>)]

DeletionAttrs ==
    [PROFILE_TYPE |-> PyList(<<"server", "stack">>), VERSION |-> "1.0",
     TARGET |-> PyList(<< <<"BEFORE", "CLUSTER_DEL_NODES">> >>)]

HealthAttrs ==
    [PROFILE_TYPE |-> PyList(<<"server">>), VERSION |-> "1.1", TARGET |-> PyNone]

NoTargetAttrs ==
    [PROFILE_TYPE |-> PyList(<<>>), VERSION |-> "2.0", TARGET |-> PyList(<<>>)]

ClassTable ==
    [Policy         |-> PolicyAttrs,
     ScalingPolicy  |-> ScalingAttrs,
     DeletionPolicy |-> DeletionAttrs,
     HealthPolicy   |-> HealthAttrs,
     PlainPolicy    |-> <<>>,
     EmptyPolicy    |-> NoTargetAttrs]

Classes == DOMAIN ClassTable

\* attribute lookup on an instance of cls: the kind's own, else Policy's
HasAttr(cls, a) == a \in DOMAIN ClassTable[cls] \/ a \in DOMAIN PolicyAttrs

ClassAttr(cls, a) ==
    IF a \in DOMAIN ClassTable[cls] THEN ClassTable[cls][a] ELSE PolicyAttrs[a]

\* getattr(self, a, default)
GetAttr(cls, a, default) == IF HasAttr(cls, a) THEN ClassAttr(cls, a) ELSE default

(* ------------------------- declarations (specs) ------------------------ *)

ScalingSpec == [type |-> "scaling", version |-> "1.0", properties |-> EmptyDict]

DeletionSpec == [type |-> "deletion", version |-> "1.0", properties |-> EmptyDict]

\* a declaration no kind is registered for, and without its properties
CustomSpec == [type |-> "custom", version |-> "1.0"]

\* schema.get_spec_version(spec)
get_spec_version(spec) == <<spec.type, spec.version>>

\* "-".join([type_name, version])
type_str(spec) == get_spec_version(spec)[1] \o "-" \o get_spec_version(spec)[2]

\* environment.global_env(): the registered policy types
Registry == ("scaling-1.0" :> "ScalingPolicy") @@ ("deletion-1.0" :> "DeletionPolicy")

\* environment.global_env().get_policy(type_str)
get_policy(key) ==
    IF key \in DOMAIN Registry THEN [exc |-> None, val |-> Registry[key]]
    ELSE [exc |-> "PolicyTypeNotFound", val |-> None]

(* ----------------------------- construction ---------------------------- *)

\* a constructor that never redirects to the registered kind
Policy__new__no_redirect(cls, name, spec, kwargs) == [exc |-> None, val |-> cls]

\* Policy.__new__: the class the new object is an instance of
Policy__new__(cls, name, spec, kwargs) ==
    IF cls # "Policy" THEN [exc |-> None, val |-> cls]
    ELSE get_policy(type_str(spec))

\* Policy.__init__ on a new object of class PolicyClass
Policy__init__(PolicyClass, name, spec, kwargs) ==
    [cls        |-> PolicyClass,
     name       |-> name,
     spec       |-> spec,
     id         |-> Get(kwargs, "id", None),
     type       |-> Get(kwargs, "type", type_str(spec)),
     user       |-> Get(kwargs, "user", None),
     project    |-> Get(kwargs, "project", None),
     domain     |-> Get(kwargs, "domain", None),
     data       |-> Get(kwargs, "data", EmptyDict),
     created_at |-> Get(kwargs, "created_at", None),
     updated_at |-> Get(kwargs, "updated_at", None),
     properties |-> Get(spec, "properties", EmptyDict),
     singleton  |-> TRUE]

\* cls(name, spec, **kwargs): __new__, then __init__ on what it returned
NewPolicy(cls, name, spec, kwargs) ==
    LET made == Policy__new__(cls, name, spec, kwargs)
    IN  IF made.exc # None THEN [exc |-> made.exc, val |-> None]
        ELSE [exc |-> None, val |-> Policy__init__(made.val, name, spec, kwargs)]

\* _from_object forgetting to pass the record's data on
from_object_kwargs_no_data(policy) ==
    [id         |-> policy.id,
     type       |-> policy.type,
     user       |-> policy.user,
     project    |-> policy.project,
     domain     |-> policy.domain,
     created_at |-> policy.created_at,
     updated_at |-> policy.updated_at]

\* _from_object forgetting to pass the record's type on
from_object_kwargs_no_type(policy) ==
    [id         |-> policy.id,
     user       |-> policy.user,
     project    |-> policy.project,
     domain     |-> policy.domain,
     created_at |-> policy.created_at,
     updated_at |-> policy.updated_at,
     data       |-> policy.data]

\* the keyword arguments _from_object builds from a policy object
from_object_kwargs(policy) ==
    [id         |-> policy.id,
     type       |-> policy.type,
     user       |-> policy.user,
     project    |-> policy.project,
     domain     |-> policy.domain,
     created_at |-> policy.created_at,
     updated_at |-> policy.updated_at,
     data       |-> policy.data]

\* Policy._from_object(cls, policy)
from_object(cls, policy) ==
    NewPolicy(cls, policy.name, policy.spec, from_object_kwargs(policy))

(* ------------------------ attach / detach / hooks ---------------------- *)

ProfileTypes == {"server", "stack", "container"}

\* a cluster with its runtime data loaded
ClusterOf(ptype) == [rt |-> [profile |-> [type |-> ptype]]]

Clusters == {ClusterOf(t) : t \in ProfileTypes}

\* _('Policy not applicable on profile type: %s') % profile.type
NotApplicable(ptype) == "Policy not applicable on profile type: " \o ptype

\* the test that short-cuts attach: self.PROFILE_TYPE == ['ANY']
IsAny(cls) == PyEq(ClassAttr(cls, "PROFILE_TYPE"), PyList(<<"ANY">>))

\* attach with the membership test the wrong way round
attach_inverted(self, cluster) ==
    IF IsAny(self.cls)
    THEN [val |-> <<TRUE, None>>, profile_read |-> FALSE]
    ELSE LET profile == cluster.rt.profile
         IN  IF PyIn(profile.type, ClassAttr(self.cls, "PROFILE_TYPE"))
             THEN [val |-> <<FALSE, NotApplicable(profile.type)>>, profile_read |-> TRUE]
             ELSE [val |-> <<TRUE, None>>, profile_read |-> TRUE]

\* Policy.attach(self, cluster); profile_read tells whether cluster.rt was read
attach(self, cluster) ==
    IF IsAny(self.cls)
    THEN [val |-> <<TRUE, None>>, profile_read |-> FALSE]
    ELSE LET profile == cluster.rt.profile
         IN  IF ~PyIn(profile.type, ClassAttr(self.cls, "PROFILE_TYPE"))
             THEN [val |-> <<FALSE, NotApplicable(profile.type)>>, profile_read |-> TRUE]
             ELSE [val |-> <<TRUE, None>>, profile_read |-> TRUE]

\* Policy.detach(self, cluster)
detach(self, cluster) == <<TRUE, None>>

Targets == {"BEFORE", "AFTER"}

ActionNames == {"CLUSTER_SCALE_IN", "CLUSTER_SCALE_OUT", "CLUSTER_DEL_NODES"}

HookActions == {[action |-> a] : a \in ActionNames}

\* need_check looking the action name up and ignoring the target
need_check_action_only(self, target, action) ==
    IF GetAttr(self.cls, "TARGET", PyNone).tag = "NoneType" THEN TRUE
    ELSE \E i \in DOMAIN ClassAttr(self.cls, "TARGET").v :
            ClassAttr(self.cls, "TARGET").v[i][2] = action.action

\* Policy.need_check(self, target, action)
need_check(self, target, action) ==
    IF GetAttr(self.cls, "TARGET", PyNone).tag = "NoneType" THEN TRUE
    ELSE IF PyIn(<<target, action.action>>, ClassAttr(self.cls, "TARGET")) THEN TRUE
    ELSE FALSE

(* --------------------------- policy data codec ------------------------- *)

\* reflection.get_class_name(self, fully_qualified=False)
get_class_name(self) == self.cls

\* _build_policy_data keying the envelope by the fully qualified class name
build_policy_data_qualified(self, data) ==
    LET clsname == "senlin.policies." \o get_class_name(self)
        version == ClassAttr(self.cls, "VERSION")
    IN  (clsname :> [version |-> version, data |-> data])

\* Policy._build_policy_data(self, data)
build_policy_data(self, data) ==
    LET clsname == get_class_name(self)
        version == ClassAttr(self.cls, "VERSION")
    IN  (clsname :> [version |-> version, data |-> data])

\* _extract_policy_data without the version test
extract_policy_data_unversioned(self, policy_data) ==
    LET clsname == get_class_name(self)
    IN  IF clsname \notin DOMAIN policy_data THEN PyNone
        ELSE Get(policy_data[clsname], "data", PyNone)

\* Policy._extract_policy_data(self, policy_data)
extract_policy_data(self, policy_data) ==
    LET clsname == get_class_name(self)
    IN  IF clsname \notin DOMAIN policy_data THEN PyNone
        ELSE LET data == policy_data[clsname]
             IN  IF "version" \notin DOMAIN data
                    \/ data.version # ClassAttr(self.cls, "VERSION")
                 THEN PyNone
                 ELSE Get(data, "data", PyNone)

(* ------------------------------ entity store --------------------------- *)

\* the n-th identifier the store assigns to a new record
IdOf(n) == "pol-" \o ToString(n)

\* po.Policy.get(context, policy_id, project_safe=...): the record, or None
PolicyGet(table, context, policy_id, project_safe) ==
    IF policy_id \notin DOMAIN table THEN PyNone
    ELSE IF project_safe /\ table[policy_id].project # context.project THEN PyNone
    ELSE table[policy_id]

\* po.Policy.get_all(context, project_safe=...): the records, oldest first
RECURSIVE PolicyGetAll(_, _, _, _)
PolicyGetAll(table, context, project_safe, n) ==
    IF n = 0 THEN <<>>
    ELSE LET before == PolicyGetAll(table, context, project_safe, n - 1)
             rec == PolicyGet(table, context, IdOf(n), project_safe)
         IN  IF rec = PyNone THEN before ELSE Append(before, rec)

\* po.Policy.create(context, values): the new record
PolicyCreate(new_id, values) ==
    [id         |-> new_id,
     name       |-> values.name,
     type       |-> values.type,
     user       |-> values.user,
     project    |-> values.project,
     domain     |-> values.domain,
     spec       |-> values.spec,
     data       |-> values.data,
     created_at |-> Get(values, "created_at", None),
     updated_at |-> Get(values, "updated_at", None)]

\* po.Policy.update(context, policy_id, values): the record with values applied
PolicyUpdate(rec, values) ==
    [f \in DOMAIN rec |-> IF f \in DOMAIN values THEN values[f] ELSE rec[f]]

\* po.Policy.delete(context, policy_id)
PolicyDelete(table, policy_id) ==
    [i \in DOMAIN table \ {policy_id} |-> table[i]]

(* ------------------------------ persistence ---------------------------- *)

\* Policy.load(cls, context, policy_id, db_policy, project_safe)
load(cls, table, context, policy_id, db_policy, project_safe) ==
    LET found == IF db_policy = PyNone
                 THEN PolicyGet(table, context, policy_id, project_safe)
                 ELSE db_policy
    IN  IF found = PyNone THEN [exc |-> "PolicyNotFound", val |-> PyNone]
        ELSE from_object(cls, found)

\* the instances the generator yields for objs[1..n], and what stops it
RECURSIVE yield_all(_, _, _)
yield_all(cls, objs, n) ==
    IF n = 0 THEN [exc |-> None, val |-> <<>>]
    ELSE LET before == yield_all(cls, objs, n - 1)
             made == from_object(cls, objs[n])
         IN  IF before.exc # None THEN before
             ELSE IF made.exc # None THEN [exc |-> made.exc, val |-> before.val]
             ELSE [exc |-> None, val |-> Append(before.val, made.val)]

\* Policy.load_all(cls, context, ...), consumed to its end
load_all(cls, table, issued, context, project_safe) ==
    LET objs == PolicyGetAll(table, context, project_safe, issued)
    IN  yield_all(cls, objs, Len(objs))

\* the values store() hands to the entity store
store_values(self) ==
    [name    |-> self.name,
     type    |-> self.type,
     user    |-> self.user,
     project |-> self.project,
     domain  |-> self.domain,
     spec    |-> self.spec,
     data    |-> self.data]

\* store that creates a record whether or not the instance has an id
store_recreate(self, table, issued, timestamp, ok) ==
    LET created == [self EXCEPT !.created_at = timestamp]
        vals == store_values(self) @@ [created_at |-> timestamp]
        policy == PolicyCreate(IdOf(issued + 1), vals)
    IN  IF ok
        THEN [self |-> [created EXCEPT !.id = policy.id],
              issued |-> issued + 1,
              table |-> table @@ (policy.id :> policy),
              exc |-> None, val |-> policy.id]
        ELSE [self |-> created, issued |-> issued, table |-> table,
              exc |-> "DBError", val |-> None]

\* Policy.store(self, context) at time timestamp; ok: the store call succeeds
store(self, table, issued, timestamp, ok) ==
    LET values == store_values(self)
    IN  IF self.id # None
        THEN LET updated == [self EXCEPT !.updated_at = timestamp]
                 vals == values @@ [updated_at |-> timestamp]
             IN  IF ok /\ self.id \in DOMAIN table
                 THEN [self |-> updated, issued |-> issued,
                       table |-> [table EXCEPT ![self.id] = PolicyUpdate(@, vals)],
                       exc |-> None, val |-> self.id]
                 ELSE [self |-> updated, issued |-> issued, table |-> table,
                       exc |-> IF self.id \in DOMAIN table THEN "DBError"
                               ELSE "PolicyNotFound",
                       val |-> None]
        ELSE LET created == [self EXCEPT !.created_at = timestamp]
                 vals == values @@ [created_at |-> timestamp]
                 policy == PolicyCreate(IdOf(issued + 1), vals)
             IN  IF ok
                 THEN [self |-> [created EXCEPT !.id = policy.id],
                       issued |-> issued + 1,
                       table |-> table @@ (policy.id :> policy),
                       exc |-> None, val |-> policy.id]
                 ELSE [self |-> created, issued |-> issued, table |-> table,
                       exc |-> "DBError", val |-> None]

\* Policy.validate(self): the exception raised, if any
validate(self) ==
    IF {"type", "version", "properties"} \subseteq DOMAIN self.spec THEN None
    ELSE "SpecValidationFailed"

\* utils.format_time(value)
format_time(value) == IF value = None THEN None ELSE "iso:" \o value

\* Policy.to_dict(self)
to_dict(self) ==
    [id         |-> self.id,
     name       |-> self.name,
     type       |-> self.type,
     user       |-> self.user,
     project    |-> self.project,
     domain     |-> self.domain,
     spec       |-> self.spec,
     created_at |-> format_time(self.created_at),
     updated_at |-> format_time(self.updated_at),
     data       |-> self.data]

(* -------------------------------- inputs ------------------------------- *)

NoKwargs == <<>>

\* keyword overrides a caller may pass to the constructor
Overrides ==
    [type |-> "other-9.9", user |-> "u1", project |-> "p1", domain |-> "d1",
     data |-> [state |-> "s"]]

\* constructor calls: (cls, name, spec, kwargs)
ConstructInputs ==
    {<<"Policy", "pol", ScalingSpec, NoKwargs>>,
     <<"Policy", "pol", CustomSpec, NoKwargs>>,
     <<"ScalingPolicy", "del", DeletionSpec, Overrides>>}

\* the classes a caller loads through
EntryClasses == {"Policy", "ScalingPolicy"}

\* timeutils.utcnow() at the time of a call
Times == {"T1", "T2"}

PolicyIds == {IdOf(n) : n \in 1..MaxIds} \cup {"no-such-id"}

Records == {db[i] : i \in DOMAIN db}

\* load is given an identifier or a record, not both
LoadInputs ==
    {<<i, PyNone>> : i \in PolicyIds} \cup {<<None, r>> : r \in Records}

Payloads == {PyNone, EmptyDict, [cooldown_until |-> 120]}

Versions == {"1.0", "1.1", "version"}

\* what a shared data container may hold: envelopes built by any kind at any
\* version, two of them merged, and entries lacking a key
Entries ==
    {[version |-> v, data |-> d] : v \in Versions, d \in {EmptyDict, [cooldown_until |-> 120]}}
    \cup {[data |-> EmptyDict], [version |-> "1.0"], [version |-> "1.1"]}

EnvelopeClasses == {"ScalingPolicy", "HealthPolicy"}

Envelopes ==
    {EmptyDict}
    \cup {(c :> e) : c \in EnvelopeClasses, e \in Entries}
    \cup {("ScalingPolicy" :> e) @@ ("HealthPolicy" :> [version |-> "1.1", data |-> EmptyDict]) :
             e \in Entries}

(* -------------------------------- actions ------------------------------ *)

\* a returned bool, str (or None), tuple or list: values of different Python
\* types are records with different fields, never equal to one another
RetBool(b) == [bool |-> b]

RetStr(x) == IF x = None THEN PyNone ELSE [str |-> x]

RetTuple(t) == [tuple |-> t]

RetList(l) == [list |-> l]

Call(op, args, exc, val) == [op |-> op, args |-> args, exc |-> exc, val |-> val]

\* cls(name, spec, **kwargs)
Construct(cls, name, spec, kwargs) ==
    LET r == NewPolicy(cls, name, spec, kwargs)
    IN  /\ p' = IF r.exc = None THEN r.val ELSE p
        /\ ret' = Call("construct", [cls |-> cls, spec |-> spec, kwargs |-> kwargs],
                       r.exc, PyNone)
        /\ UNCHANGED <<db, next_id>>

\* cls.load(context, policy_id, db_policy, project_safe)
Load(cls, context, policy_id, db_policy, project_safe) ==
    LET r == load(cls, db, context, policy_id, db_policy, project_safe)
    IN  /\ p' = IF r.exc = None THEN r.val ELSE p
        /\ ret' = Call("load",
                       [cls |-> cls, context |-> context, policy_id |-> policy_id,
                        db_policy |-> db_policy, project_safe |-> project_safe],
                       r.exc, r.val)
        /\ UNCHANGED <<db, next_id>>

\* list(cls.load_all(context, project_safe=...))
LoadAll(cls, context, project_safe) ==
    LET r == load_all(cls, db, next_id, context, project_safe)
    IN  /\ ret' = Call("load_all",
                       [cls |-> cls, context |-> context, project_safe |-> project_safe],
                       r.exc, RetList(r.val))
        /\ UNCHANGED <<p, db, next_id>>

\* Policy.delete(context, policy_id)
Delete(policy_id) ==
    /\ db' = PolicyDelete(db, policy_id)
    /\ ret' = Call("delete", [policy_id |-> policy_id], None, PyNone)
    /\ UNCHANGED <<p, next_id>>

\* p.store(context)
Store(timestamp, ok) ==
    /\ p # PyNone
    /\ (p.id = None /\ ok) => next_id < MaxIds
    /\ LET r == store(p, db, next_id, timestamp, ok)
       IN  /\ p' = r.self
           /\ db' = r.table
           /\ next_id' = r.issued
           /\ ret' = Call("store", [timestamp |-> timestamp], r.exc, RetStr(r.val))

\* p.validate()
Validate ==
    /\ p # PyNone
    /\ ret' = Call("validate", <<>>, validate(p), PyNone)
    /\ UNCHANGED <<p, db, next_id>>

\* p.attach(cluster)
Attach(cluster) ==
    /\ p # PyNone
    /\ ret' = Call("attach", [cluster |-> cluster], None, attach(p, cluster))
    /\ UNCHANGED <<p, db, next_id>>

\* p.detach(cluster)
Detach(cluster) ==
    /\ p # PyNone
    /\ ret' = Call("detach", [cluster |-> cluster], None, RetTuple(detach(p, cluster)))
    /\ UNCHANGED <<p, db, next_id>>

\* p.need_check(target, action)
NeedCheck(target, action) ==
    /\ p # PyNone
    /\ ret' = Call("need_check", [target |-> target, action |-> action], None,
                   RetBool(need_check(p, target, action)))
    /\ UNCHANGED <<p, db, next_id>>

\* p.pre_op(cluster_id, action)
PreOp(action) ==
    /\ p # PyNone
    /\ ret' = Call("pre_op", [action |-> action], None, PyNone)
    /\ UNCHANGED <<p, db, next_id>>

\* p.post_op(cluster_id, action)
PostOp(action) ==
    /\ p # PyNone
    /\ ret' = Call("post_op", [action |-> action], None, PyNone)
    /\ UNCHANGED <<p, db, next_id>>

\* p.to_dict()
ToDict ==
    /\ p # PyNone
    /\ ret' = Call("to_dict", <<>>, None, to_dict(p))
    /\ UNCHANGED <<p, db, next_id>>

\* p._build_policy_data(payload)
BuildPolicyData(payload) ==
    /\ p # PyNone
    /\ ret' = Call("build_policy_data", [data |-> payload], None,
                   build_policy_data(p, payload))
    /\ UNCHANGED <<p, db, next_id>>

\* p._extract_policy_data(policy_data)
ExtractPolicyData(policy_data) ==
    /\ p # PyNone
    /\ ret' = Call("extract_policy_data", [policy_data |-> policy_data], None,
                   extract_policy_data(p, policy_data))
    /\ UNCHANGED <<p, db, next_id>>

\* p._extract_policy_data(p._build_policy_data(payload))
RoundTrip(payload) ==
    /\ p # PyNone
    /\ ret' = Call("round_trip", [data |-> payload], None,
                   extract_policy_data(p, build_policy_data(p, payload)))
    /\ UNCHANGED <<p, db, next_id>>

Init ==
    /\ p = PyNone
    /\ db = <<>>
    /\ next_id = 0
    /\ ret = Call("init", <<>>, None, PyNone)

(* ------- Spec: construction, rehydration and the calls on a policy ----- *)

TheContext == [project |-> "p1"]

TheCluster == ClusterOf("container")

TheAction == [action |-> "CLUSTER_SCALE_IN"]

DoConstruct == \E c \in ConstructInputs : Construct(c[1], c[2], c[3], c[4])

DoLoad ==
    \E cls \in EntryClasses, i \in LoadInputs, project_safe \in BOOLEAN :
        Load(cls, TheContext, i[1], i[2], project_safe)

DoLoadAll ==
    \E cls \in EntryClasses, project_safe \in BOOLEAN :
        LoadAll(cls, TheContext, project_safe)

DoDelete == \E policy_id \in PolicyIds : Delete(policy_id)

DoStore == Store("T1", TRUE)

DoAttach == Attach(TheCluster)

DoDetach == Detach(TheCluster)

DoNeedCheck == NeedCheck("BEFORE", TheAction)

DoPreOp == PreOp(TheAction)

DoPostOp == PostOp(TheAction)

Next ==
    \/ DoConstruct
    \/ DoLoad
    \/ DoLoadAll
    \/ DoDelete
    \/ DoStore
    \/ Validate
    \/ DoAttach
    \/ DoDetach
    \/ DoNeedCheck
    \/ DoPreOp
    \/ DoPostOp
    \/ ToDict

Spec == Init /\ [][Next]_vars

(* ------ SpecStore: store() over time, with the store's failures -------- *)

NewFresh == Construct("Policy", "pol", ScalingSpec, NoKwargs)

StoreAt == \E timestamp \in Times, ok \in BOOLEAN : Store(timestamp, ok)

Reload == \E policy_id \in PolicyIds : Load("Policy", TheContext, policy_id, PyNone, FALSE)

NextStore ==
    \/ NewFresh
    \/ StoreAt
    \/ DoDelete
    \/ Reload

SpecStore == Init /\ [][NextStore]_vars

(* ------ SpecKind: the guards and the data codec of every kind ---------- *)

InitKind ==
    /\ p \in {Policy__init__(c, "pol", ScalingSpec, NoKwargs) : c \in Classes}
    /\ db = <<>>
    /\ next_id = 0
    /\ ret = Call("init", <<>>, None, PyNone)

AnyAttach == \E cluster \in Clusters : Attach(cluster)

AnyDetach == \E cluster \in Clusters : Detach(cluster)

AnyNeedCheck == \E target \in Targets, action \in HookActions : NeedCheck(target, action)

AnyBuild == \E payload \in Payloads : BuildPolicyData(payload)

AnyExtract == \E policy_data \in Envelopes : ExtractPolicyData(policy_data)

AnyRoundTrip == \E payload \in Payloads : RoundTrip(payload)

NextKind ==
    \/ AnyAttach
    \/ AnyDetach
    \/ AnyNeedCheck
    \/ AnyBuild
    \/ AnyExtract
    \/ AnyRoundTrip

SpecKind == InitKind /\ [][NextKind]_vars

(* ======================= properties of the claims ====================== *)

\* the "<type>-<version>" key of a declaration
CompositeKey(spec) == spec.type \o "-" \o spec.version

\* the elements of a Python list
Elems(l) == {l.v[i] : i \in DOMAIN l.v}

\* the kind's PROFILE_TYPE is the 'ANY' marker, as a str (the base class
\* default) or as the one-element list
DeclaresAny(cls) ==
    \/ PyEq(ClassAttr(cls, "PROFILE_TYPE"), PyStr("ANY"))
    \/ PyEq(ClassAttr(cls, "PROFILE_TYPE"), PyList(<<"ANY">>))

\* the kind's PROFILE_TYPE is a list of profile types, not the marker
DeclaresRestricted(cls) ==
    ClassAttr(cls, "PROFILE_TYPE").tag = "list" /\ ~DeclaresAny(cls)

\* the kind declares a TARGET list
DeclaresTarget(cls) ==
    HasAttr(cls, "TARGET") /\ ClassAttr(cls, "TARGET").tag = "list"

\* the record a load call works from: the one passed in, else the store's
RecordOf(a) ==
    IF a.db_policy # PyNone THEN a.db_policy
    ELSE PolicyGet(db, a.context, a.policy_id, a.project_safe)

\* the fields an instance takes from the record it is rehydrated from
RecordFields ==
    {"id", "name", "type", "spec", "data", "user", "project", "domain",
     "created_at", "updated_at"}

\* C1: attach on a kind whose PROFILE_TYPE is the 'ANY' marker (the base
\* class default included) returns (True, None) for every cluster profile
\* type, without reading the cluster's profile.
C1_AttachUniversal ==
    (ret.op = "attach" /\ DeclaresAny(p.cls)) =>
        /\ ret.val.val = <<TRUE, None>>
        /\ ~ret.val.profile_read

\* C2: attach on a kind with a restricted PROFILE_TYPE list returns
\* (True, None) exactly when the cluster's profile type is in the list and
\* otherwise the value (False, "Policy not applicable on profile type: <t>"),
\* never raising, and leaves the policy and the store as they were.
C2_AttachRestricted ==
    [][(ret'.op = "attach" /\ DeclaresRestricted(p'.cls)) =>
          LET t == ret'.args.cluster.rt.profile.type
          IN  /\ ret'.exc = None
              /\ ret'.val.val =
                    IF t \in Elems(ClassAttr(p'.cls, "PROFILE_TYPE"))
                    THEN <<TRUE, None>>
                    ELSE <<FALSE, "Policy not applicable on profile type: " \o t>>
              /\ p' = p /\ db' = db]_vars

C2_Witness ==
    /\ ret.op = "attach"
    /\ DeclaresRestricted(p.cls)
    /\ ret.args.cluster.rt.profile.type = "container"
    /\ ret.val.val = <<FALSE, "Policy not applicable on profile type: container">>

\* C8: need_check returns True for every target and action when the kind
\* declares no TARGET, and otherwise True exactly when (target,
\* action.action) is in the declared TARGET; it leaves the policy unchanged.
C8_NeedCheck ==
    [][ret'.op = "need_check" =>
          /\ ret'.exc = None
          /\ ret'.val.bool =
                IF DeclaresTarget(p'.cls)
                THEN <<ret'.args.target, ret'.args.action.action>>
                         \in Elems(ClassAttr(p'.cls, "TARGET"))
                ELSE TRUE
          /\ p' = p /\ db' = db]_vars

C8_Witness ==
    /\ ret.op = "need_check"
    /\ DeclaresTarget(p.cls)
    /\ ret.args.target = "AFTER"
    /\ ret.args.action.action = "CLUSTER_SCALE_IN"
    /\ <<"BEFORE", "CLUSTER_SCALE_IN">> \in Elems(ClassAttr(p.cls, "TARGET"))
    /\ ret.val = RetBool(FALSE)

\* C4: extract_policy_data(build_policy_data(payload)) is payload, for every
\* payload and every kind, build and extract being done by the same kind.
C4_RoundTrip ==
    ret.op = "round_trip" => ret.val = ret.args.data

C4_Witness ==
    /\ ret.op = "round_trip"
    /\ p.cls = "ScalingPolicy"
    /\ ret.args.data = [cooldown_until |-> 120]
    /\ ret.val = [cooldown_until |-> 120]

\* C5: extract_policy_data returns None, without raising, when the envelope
\* has no key equal to the kind's class name, or the entry under that key has
\* no version or a version other than the kind's VERSION.
C5_ExtractForeign ==
    ret.op = "extract_policy_data" =>
        LET env == ret.args.policy_data
            own == p.cls
        IN  (\/ own \notin DOMAIN env
             \/ "version" \notin DOMAIN env[own]
             \/ env[own].version # ClassAttr(p.cls, "VERSION"))
            => (ret.exc = None /\ ret.val = PyNone)

C5_Witness ==
    /\ ret.op = "extract_policy_data"
    /\ p.cls = "ScalingPolicy"
    /\ "ScalingPolicy" \in DOMAIN ret.args.policy_data
    /\ ret.args.policy_data["ScalingPolicy"] =
           [version |-> "1.1", data |-> [cooldown_until |-> 120]]
    /\ ret.val = PyNone

\* C3: a successful store on an instance without id sets created_at, adds
\* one record and gives the instance that record's non-empty id (a failed
\* one adds no record and leaves id unset); a store on an instance with an
\* id sets updated_at, touches no record but the one under that id, adds no
\* record, and leaves id and created_at as they were.
C3_StoreOnce ==
    [][ret'.op = "store" =>
          IF p.id = None
          THEN IF ret'.exc = None
               THEN /\ p'.created_at = ret'.args.timestamp
                    /\ p'.id # None /\ p'.id # ""
                    /\ p'.id \notin DOMAIN db
                    /\ DOMAIN db' = DOMAIN db \cup {p'.id}
                    /\ \A i \in DOMAIN db : db'[i] = db[i]
                    /\ db'[p'.id].id = p'.id
                    /\ db'[p'.id].created_at = ret'.args.timestamp
                    /\ ret'.val = RetStr(p'.id)
               ELSE p'.id = None /\ db' = db
          ELSE /\ p'.id = p.id
               /\ p'.created_at = p.created_at
               /\ p'.updated_at = ret'.args.timestamp
               /\ DOMAIN db' = DOMAIN db
               /\ \A i \in DOMAIN db \ {p.id} : db'[i] = db[i]
               /\ ret'.exc = None =>
                     /\ db'[p.id].updated_at = ret'.args.timestamp
                     /\ db'[p.id].created_at = db[p.id].created_at
                     /\ ret'.val = RetStr(p.id)]_vars

\* an instance stored at T1 and stored again at T2, its record updated
C3_Witness ==
    /\ ret.op = "store"
    /\ ret.exc = None
    /\ p # PyNone
    /\ p.created_at = "T1"
    /\ p.updated_at = "T2"
    /\ p.id \in DOMAIN db
    /\ db[p.id].created_at = "T1"
    /\ db[p.id].updated_at = "T2"
    /\ Cardinality(DOMAIN db) = 1

\* C10: a store() whose entity-store call fails leaves the instance as it
\* was: created_at is set if and only if id is set.
C10_FailedStoreLeavesInstance ==
    p # PyNone => (p.created_at # None <=> p.id # None)

\* C6: load of an identifier the store does not resolve raises PolicyNotFound
\* and returns no instance; a load that returns an instance worked from a
\* record, found or passed in, and the instance has that record's id, name,
\* type, spec, data, scoping fields and timestamps.
C6_Load ==
    ret.op = "load" =>
        LET rec == RecordOf(ret.args)
        IN  /\ rec = PyNone => (ret.exc = "PolicyNotFound" /\ ret.val = PyNone)
            /\ ret.exc # None => ret.val = PyNone
            /\ ret.exc = None =>
                  /\ rec # PyNone
                  /\ ret.val # PyNone
                  /\ p = ret.val
                  /\ \A f \in RecordFields : ret.val[f] = rec[f]

\* a record that exists and that the project filter hides from the caller
C6_Witness ==
    /\ ret.op = "load"
    /\ ret.exc = "PolicyNotFound"
    /\ ret.args.policy_id \in DOMAIN db
    /\ ret.args.project_safe
    /\ ret.val = PyNone

\* C7 as stated: the type of every instance, fresh with keyword overrides or
\* rehydrated, is the composite key of its own spec.
C7_TypeIsCompositeKey ==
    p # PyNone => p.type = CompositeKey(p.spec)

\* C7 amended: a constructed instance has the type keyword it was given and,
\* given none, the composite key of its spec; a rehydrated instance has the
\* type of its record; no other call changes the type of the instance.
C7_TypeFixedAtConstruction ==
    [][/\ (ret'.op = "construct" /\ ret'.exc = None) =>
              /\ p'.spec = ret'.args.spec
              /\ p'.type = IF "type" \in DOMAIN ret'.args.kwargs
                           THEN ret'.args.kwargs.type
                           ELSE CompositeKey(ret'.args.spec)
       /\ (ret'.op = "load" /\ ret'.exc = None) =>
              /\ p'.spec = RecordOf(ret'.args).spec
              /\ p'.type = RecordOf(ret'.args).type
       /\ (ret'.op \notin {"construct", "load"} /\ p # PyNone) =>
              /\ p' # PyNone
              /\ p'.type = p.type
              /\ p'.spec = p.spec]_vars

\* a rehydrated instance whose type is its record's, not its spec's key
C7_Witness ==
    /\ ret.op = "load"
    /\ ret.exc = None
    /\ p.updated_at # None
    /\ p.type = "other-9.9"
    /\ CompositeKey(p.spec) = "deletion-1.0"
    /\ RecordOf(ret.args).type = "other-9.9"

\* C9 as stated: whichever class load is invoked on, the rehydrated instance
\* is of the kind registered under the key of the record's spec.
C9_KindFromRegistry ==
    (ret.op = "load" /\ ret.exc = None) =>
        /\ CompositeKey(RecordOf(ret.args).spec) \in DOMAIN Registry
        /\ ret.val.cls = Registry[CompositeKey(RecordOf(ret.args).spec)]

\* the class a rehydration through cls gives the instance of a record
KindThrough(cls, rec) ==
    IF cls # "Policy" THEN cls
    ELSE IF CompositeKey(rec.spec) \in DOMAIN Registry
         THEN Registry[CompositeKey(rec.spec)]
         ELSE "no kind"

\* C9 amended: an instance rehydrated through the generic Policy class is of
\* the kind registered under the key of the record's spec, one rehydrated
\* through a concrete kind is of that kind; a load_all that completes yields
\* one such instance per record the store returned, in the store's order.
C9_KindAsConstruction ==
    /\ (ret.op = "load" /\ ret.exc = None) =>
           ret.val.cls = KindThrough(ret.args.cls, RecordOf(ret.args))
    /\ (ret.op = "load_all" /\ ret.exc = None) =>
           LET objs == PolicyGetAll(db, ret.args.context, ret.args.project_safe, next_id)
           IN  /\ Len(ret.val.list) = Len(objs)
               /\ \A i \in 1..Len(objs) :
                     /\ ret.val.list[i].cls = KindThrough(ret.args.cls, objs[i])
                     /\ \A f \in RecordFields : ret.val.list[i][f] = objs[i][f]

\* the generic load_all over two records of different kinds
C9_Witness ==
    /\ ret.op = "load_all"
    /\ ret.exc = None
    /\ ret.args.cls = "Policy"
    /\ Len(ret.val.list) = 2
    /\ ret.val.list[1].cls = "DeletionPolicy"
    /\ ret.val.list[2].cls = "ScalingPolicy"
    /\ ret.val.list[1].id = "pol-1"
    /\ ret.val.list[2].id = "pol-2"

====
